---------------------------- MODULE Spec2Model ----------------------------
(***************************************************************************)
(* A model of img2text.py: the image decoders (PNG, BMP, PPM/PGM), the     *)
(* loader dispatcher, the cell scaler and the glyph renderers.             *)
(*                                                                         *)
(* The program is single-threaded and every operation is a function of     *)
(* its arguments, so the state is one call: the function invoked (op),     *)
(* its arguments (args) and what it returned or raised (ret).  Each        *)
(* specification draws the arguments of one function from bounded sets     *)
(* and its single action performs the whole call.                          *)
(*                                                                         *)
(* Byte strings are sequences of 0..255, indexed from 0 through At.        *)
(* Python exceptions are the value Raise(kind); a decoder's "return None"  *)
(* is the value None.                                                      *)
(***************************************************************************)
EXTENDS Integers, Sequences, FiniteSets, TLC

VARIABLES op, args, ret

vars == <<op, args, ret>>

---------------------------------------------------------------------------
(* Bounds of the model. *)

\* largest image height (rows) the decoders are given
MaxH == 2
\* largest explicit cell count passed to the scaler / renderers
MaxCells == 2
\* longest ramp given to render_blocks
MaxRampLen == 12

---------------------------------------------------------------------------
(* Values *)

Pending == [kind |-> "pending"]
None == [kind |-> "none"]
Raise(e) == [kind |-> "raise", err |-> e]
IsRaise(r) == r.kind = "raise"
\* a byte string returned by a helper
Bytes(data) == [kind |-> "bytes", data |-> data]

Min(a, b) == IF a <= b THEN a ELSE b
Max(a, b) == IF a >= b THEN a ELSE b
Abs(a) == IF a < 0 THEN -a ELSE a

\* 0-based indexing of a byte string
At(s, i) == s[i + 1]

\* n zero bytes: bytearray(n)
Zeros(n) == [i \in 1..n |-> 0]

\* Python's s[lo:hi]: negative indices count from the end, all clamped
SliceIdx(n, i) == IF i < 0 THEN Max(i + n, 0) ELSE Min(i, n)
PySlice(s, lo, hi) ==
    LET a == SliceIdx(Len(s), lo)
        b == SliceIdx(Len(s), hi)
    IN  IF a >= b THEN <<>> ELSE SubSeq(s, a + 1, b)

\* Python's bytearray slice assignment s[lo:hi] = v (the length may change)
SliceAssign(s, lo, hi, v) ==
    LET a == SliceIdx(Len(s), lo)
        b == Max(a, SliceIdx(Len(s), hi))
    IN  SubSeq(s, 1, a) \o v \o SubSeq(s, b + 1, Len(s))

---------------------------------------------------------------------------
(* RGBAImage *)

RGBAImage(w, h, buf) == [kind |-> "image", size |-> <<w, h>>, buf |-> buf]

\* the source bytes copied to destination pixel k = ty * tw + tx
resize_src(img, tw, th, k) ==
    LET w == img.size[1]
        h == img.size[2]
        sy == Min(h - 1, ((k \div tw) * h) \div th)
        row_off == sy * w * 4
        sx == Min(w - 1, ((k % tw) * w) \div tw) * 4
    IN  PySlice(img.buf, row_off + sx, row_off + sx + 4)

\* resize_nn's loops (ty outer, tx inner) from destination pixel k on, as
\* slice assignments: a source slice of fewer than 4 bytes shortens out
RECURSIVE resize_fill(_, _, _, _, _)
resize_fill(img, tw, th, k, out) ==
    IF k >= tw * th THEN out
    ELSE resize_fill(img, tw, th, k + 1,
             SliceAssign(out, k * 4, k * 4 + 4, resize_src(img, tw, th, k)))

resize_alloc(tw, th) == tw * th * 4

\* when every source slice holds 4 bytes each assignment is in place, and
\* the loops leave byte i of pixel k equal to byte i of its source slice
resize_nn(img, tw, th) ==
    IF resize_alloc(tw, th) < 0 THEN Raise("ValueError")
    ELSE IF \A k \in 0..(tw * th - 1) : Len(resize_src(img, tw, th, k)) = 4
         THEN RGBAImage(tw, th,
                  [i \in 1..resize_alloc(tw, th) |->
                      resize_src(img, tw, th, (i - 1) \div 4)[((i - 1) % 4) + 1]])
    ELSE RGBAImage(tw, th, resize_fill(img, tw, th, 0, Zeros(resize_alloc(tw, th))))

---------------------------------------------------------------------------
(* PNG: scanline defiltering *)

paeth(a, b, c) ==
    LET p == a + b - c
        pa == Abs(p - a)
        pb == Abs(p - b)
        pc == Abs(p - c)
    IN  IF pa <= pb /\ pa <= pc THEN a ELSE (IF pb <= pc THEN b ELSE c)

\* predictor with the left neighbour taken one byte back, not one pixel back
predictor_left_byte(f, d, prev, x, bpp_bytes) ==
    LET left == IF x >= 1 THEN At(d, x - 1) ELSE 0
        up == At(prev, x)
        ul == IF x >= 1 THEN At(prev, x - 1) ELSE 0
    IN  CASE f = 1 -> left
          [] f = 2 -> up
          [] f = 3 -> (left + up) \div 2
          [] OTHER -> paeth(left, up, ul)

\* the predictor added to s[x] for filter type f (1..4), from the bytes
\* already reconstructed in this row (d) and the previous row (prev)
predictor(f, d, prev, x, bpp_bytes) ==
    LET left == IF x >= bpp_bytes THEN At(d, x - bpp_bytes) ELSE 0
        up == At(prev, x)
        ul == IF x >= bpp_bytes THEN At(prev, x - bpp_bytes) ELSE 0
    IN  CASE f = 1 -> left
          [] f = 2 -> up
          [] f = 3 -> (left + up) \div 2
          [] OTHER -> paeth(left, up, ul)

\* the inner for-x loop of one scanline, left to right
RECURSIVE unfilter_row(_, _, _, _, _, _)
unfilter_row(f, s, prev, bpp_bytes, x, d) ==
    IF x >= Len(s) THEN d
    ELSE unfilter_row(f, s, prev, bpp_bytes, x + 1,
             Append(d, (At(s, x) + predictor(f, d, prev, x, bpp_bytes)) % 256))

\* the for-row loop; out is the bytes reconstructed so far
RECURSIVE unfilter_rows(_, _, _, _, _, _, _)
unfilter_rows(raw, stride, bpp_bytes, rows, off, prev, out) ==
    IF rows = 0 THEN Bytes(out)
    ELSE IF off >= Len(raw) THEN Raise("IndexError")
    ELSE LET f == At(raw, off)
             s == PySlice(raw, off + 1, off + 1 + stride)
         IN  IF f \notin 0..4 THEN Raise("ValueError")
             ELSE IF Len(s) # stride
                  THEN Raise(IF f = 0 THEN "ValueError" ELSE "IndexError")
             ELSE LET d == IF f = 0 THEN s
                           ELSE unfilter_row(f, s, prev, bpp_bytes, 0, <<>>)
                  IN  unfilter_rows(raw, stride, bpp_bytes, rows - 1,
                                    off + 1 + stride, d, out \o d)

\* bytes per scanline, after its filter-type tag, that _unfilter consumes
unfilter_stride(w, bpp_bytes) == w * bpp_bytes

unfilter(raw, w, h, bpp_bytes) ==
    unfilter_rows(raw, unfilter_stride(w, bpp_bytes), bpp_bytes, h, 0,
                  Zeros(unfilter_stride(w, bpp_bytes)), <<>>)


---------------------------------------------------------------------------
(* PNG: sample expansion and load_png *)

RECURSIVE Pow2(_)
Pow2(n) == IF n = 0 THEN 1 ELSE IF n = 1 THEN 2 ELSE IF n = 2 THEN 4
           ELSE IF n = 3 THEN 8 ELSE IF n = 4 THEN 16 ELSE IF n = 5 THEN 32
           ELSE IF n = 6 THEN 64 ELSE IF n = 7 THEN 128 ELSE 256 * Pow2(n - 8)

\* the scaling of one unpacked sample to 8 bits
expand_sample(val, bits_per_sample) ==
    CASE bits_per_sample = 1 -> IF val = 0 THEN 0 ELSE 255
      [] bits_per_sample = 2 -> val * 85
      [] bits_per_sample = 4 -> val * 17
      [] OTHER -> val

\* the while loop of _unpack_bits: pos is the iterator's position in
\* row_bytes, (acc, nbits) the bit cursor
RECURSIVE unpack_loop(_, _, _, _, _, _, _)
unpack_loop(row_bytes, total, bits_per_sample, pos, acc, nbits, out) ==
    IF Len(out) >= total THEN out
    ELSE IF nbits < bits_per_sample
         THEN IF pos >= Len(row_bytes)
              THEN out \o Zeros(total - Len(out))
              ELSE unpack_loop(row_bytes, total, bits_per_sample, pos + 1,
                               acc * 256 + At(row_bytes, pos), nbits + 8, out)
    ELSE LET shift == nbits - bits_per_sample
             val == (acc \div Pow2(shift)) % Pow2(bits_per_sample)
         IN  unpack_loop(row_bytes, total, bits_per_sample, pos, acc,
                         nbits - bits_per_sample,
                         Append(out, expand_sample(val, bits_per_sample)))

unpack_bits(row_bytes, w, bits_per_sample, spp) ==
    unpack_loop(row_bytes, w * spp, bits_per_sample, 0, 0, 0, <<>>)

\* samples per pixel of a colour type (0 when unsupported)
png_spp(color_type) ==
    CASE color_type = 0 -> 1
      [] color_type = 2 -> 3
      [] color_type = 3 -> 1
      [] color_type = 4 -> 2
      [] color_type = 6 -> 4
      [] OTHER -> 0

png_bpp(spp, bit_depth) == Max(1, (spp * bit_depth + 7) \div 8)

\* bytes per row stepped through the defiltered data by the expansion loops
png_row_len(color_type, w, bit_depth, spp) ==
    IF color_type = 3 THEN (w * bit_depth + 7) \div 8
    ELSE IF bit_depth < 8 THEN (w * spp * bit_depth + 7) \div 8
    ELSE w * spp * (IF bit_depth = 8 THEN 1 ELSE 2)

\* the 8-bit samples of one row (smp / vals), from its bytes
png_row_samples(color_type, rb, w, bit_depth, spp) ==
    IF bit_depth < 8 THEN unpack_bits(rb, w, bit_depth, spp)
    ELSE IF color_type # 3 /\ bit_depth = 16
         THEN [k \in 1..(Len(rb) \div 2) |-> rb[2 * k - 1]]
    ELSE rb

\* palette lookup of one index: <<r, g, b, a>>, or the unpacking error of a
\* truncated last palette entry
palette_pixel(idx, plte, trns) ==
    LET npal == (Len(plte) + 2) \div 3
        entry == IF idx < npal THEN PySlice(plte, 3 * idx, 3 * idx + 3)
                 ELSE <<0, 0, 0>>
        a == IF idx < Len(trns) THEN At(trns, idx) ELSE 255
    IN  IF Len(entry) # 3 THEN Raise("ValueError") ELSE Bytes(entry \o <<a>>)

png_pixel(color_type, spp, smp, x, plte, trns) ==
    IF (x + 1) * spp > Len(smp) THEN Raise("IndexError")
    ELSE CASE color_type = 3 -> palette_pixel(At(smp, x), plte, trns)
           [] color_type = 0 ->
                Bytes(<<At(smp, x), At(smp, x), At(smp, x), 255>>)
           [] color_type = 4 ->
                Bytes(<<At(smp, 2 * x), At(smp, 2 * x), At(smp, 2 * x),
                        At(smp, 2 * x + 1)>>)
           [] color_type = 2 ->
                Bytes(<<At(smp, 3 * x), At(smp, 3 * x + 1), At(smp, 3 * x + 2), 255>>)
           [] OTHER ->
                Bytes(<<At(smp, 4 * x), At(smp, 4 * x + 1), At(smp, 4 * x + 2),
                        At(smp, 4 * x + 3)>>)

\* the row and pixel loops of load_png, pixel k = row * w + x
RECURSIVE png_fill(_, _, _, _, _)
png_fill(f, scan, k, di, out) ==
    LET w == f.w
        spp == png_spp(f.color_type)
    IN  IF k >= w * f.h THEN Bytes(out)
        ELSE LET row_len == png_row_len(f.color_type, w, f.bit_depth, spp)
                 off == (k \div w) * row_len
                 rb == PySlice(scan, off, off + row_len)
                 smp == png_row_samples(f.color_type, rb, w, f.bit_depth, spp)
                 px == png_pixel(f.color_type, spp, smp, k % w, f.plte, f.trns)
             IN  IF IsRaise(px) THEN px
                 ELSE png_fill(f, scan, k + 1, di + 4,
                               SliceAssign(out, di, di + 4, px.data))

load_png(f) ==
    IF f.fmt # "png" THEN None
    ELSE IF ~f.has_ihdr THEN Raise("PNG missing IHDR")
    ELSE IF f.comp # 0 \/ f.flt # 0 \/ f.interlace # 0
         THEN Raise("Only non-interlaced PNG supported")
    ELSE IF png_spp(f.color_type) = 0 THEN Raise("Unsupported PNG color type")
    ELSE LET spp == png_spp(f.color_type)
             scan == unfilter(f.raw, f.w, f.h, png_bpp(spp, f.bit_depth))
         IN  IF IsRaise(scan) THEN scan
             ELSE IF f.color_type = 3 /\ f.plte = <<>> THEN Raise("Palette missing")
             ELSE LET out == png_fill(f, scan.data, 0, 0, Zeros(f.w * f.h * 4))
                  IN  IF IsRaise(out) THEN out
                      ELSE RGBAImage(f.w, f.h, out.data)

---------------------------------------------------------------------------
(* BMP and PPM/PGM loaders *)

\* bmp_src_row ignoring the sign of the height
bmp_src_row_bottom_up(h, height, rowi) == height - 1 - rowi

\* the file row holding output row rowi: bottom-up unless the height is negative
bmp_src_row(h, height, rowi) == IF h < 0 THEN rowi ELSE height - 1 - rowi

\* the row and pixel loops of load_bmp, pixel k = rowi * w + x
RECURSIVE bmp_fill(_, _, _, _)
bmp_fill(f, row, k, out) ==
    LET w == f.w
        height == Abs(f.h)
    IN  IF w <= 0 \/ k >= w * height THEN Bytes(out)
        ELSE LET rowi == k \div w
                 x == k % w
                 sy == bmp_src_row(f.h, height, rowi)
                 ro == sy * row
                 di == rowi * w * 4 + x * 4
                 n == IF f.bpp = 24 THEN 3 ELSE 4
                 p == PySlice(f.px, ro + x * n, ro + x * n + n)
             IN  IF Len(p) # n THEN Raise("ValueError")
                 ELSE bmp_fill(f, row, k + 1,
                          SliceAssign(out, di, di + 4,
                              <<p[3], p[2], p[1], IF f.bpp = 24 THEN 255 ELSE p[4]>>))

bmp_row(bpp, w) == ((bpp * w + 31) \div 32) * 4

bmp_alloc(w, h) == Abs(h) * w * 4

load_bmp(f) ==
    IF f.fmt # "bmp" THEN None
    ELSE IF f.dib < 40 THEN Raise("BMP: unsupported DIB header")
    ELSE IF f.planes # 1 \/ f.comp # 0 THEN Raise("BMP: only uncompressed BI_RGB")
    ELSE IF f.bpp \notin {24, 32} THEN Raise("BMP: only 24/32-bit")
    ELSE IF bmp_alloc(f.w, f.h) < 0 THEN Raise("ValueError")
    ELSE LET out == bmp_fill(f, bmp_row(f.bpp, f.w), 0, Zeros(bmp_alloc(f.w, f.h)))
         IN  IF IsRaise(out) THEN out
             ELSE RGBAImage(f.w, Abs(f.h), out.data)

\* the pixel loop of load_ppm_pgm
RECURSIVE ppm_fill(_, _, _, _, _)
ppm_fill(f, data, k, di, out) ==
    IF k >= f.w * f.h THEN Bytes(out)
    ELSE IF f.magic = "P5"
         THEN IF k >= Len(data) THEN Raise("IndexError")
              ELSE ppm_fill(f, data, k + 1, di + 4,
                       SliceAssign(out, di, di + 4,
                           <<At(data, k), At(data, k), At(data, k), 255>>))
    ELSE LET p == PySlice(data, 3 * k, 3 * k + 3)
         IN  IF Len(p) # 3 THEN Raise("ValueError")
             ELSE ppm_fill(f, data, k + 1, di + 4,
                      SliceAssign(out, di, di + 4, <<p[1], p[2], p[3], 255>>))

ppm_alloc(w, h) == w * h * 4

\* the header tokens are given parsed (w, h, maxval); data is what follows
load_ppm_pgm(f) ==
    IF f.fmt # "ppm" THEN None
    ELSE IF f.maxval # 255 THEN Raise("PPM/PGM: only maxval 255")
    ELSE LET count == f.w * f.h * (IF f.magic = "P5" THEN 1 ELSE 3)
             data == IF count < 0 THEN f.data ELSE PySlice(f.data, 0, count)
         IN  IF ppm_alloc(f.w, f.h) < 0 THEN Raise("ValueError")
             ELSE LET out == ppm_fill(f, data, 0, 0, Zeros(ppm_alloc(f.w, f.h)))
                  IN  IF IsRaise(out) THEN out
                      ELSE RGBAImage(f.w, f.h, out.data)

---------------------------------------------------------------------------
(* Loader dispatcher *)

\* what one pass of the for loop leaves: the image when the loader returned
\* one, nothing when it returned None or raised (except Exception: pass)
try_loader(r) == IF r.kind = "image" THEN r ELSE None

load_image(f) ==
    LET a == try_loader(load_png(f))
        b == try_loader(load_bmp(f))
        c == try_loader(load_ppm_pgm(f))
    IN  IF a.kind = "image" THEN a
        ELSE IF b.kind = "image" THEN b
        ELSE IF c.kind = "image" THEN c
        ELSE Raise("SystemExit: Unsupported or unreadable image.")

---------------------------------------------------------------------------
(* Scaling to text cells *)

\* an optional argument: {} is None, {n} is the value n
NoneArg == {}
Given(n) == {n}
ValueOf(o) == CHOOSE n \in o : TRUE

\* the quotient rounded half up, as int(x + 0.5) would
py_int_rounded(n, d) == (2 * n + d) \div (2 * d)

\* Python's int() of the quotient n / d (d > 0): truncation toward zero
py_int(n, d) == IF n >= 0 THEN n \div d ELSE -((-n) \div d)

\* pixels per cell and aspect factor (a fraction <<num, den>>) of a mode
footprint(mode, char_aspect) ==
    CASE mode = "braille" -> [pxw |-> 2, pxh |-> 4, eff |-> <<1, 2>>]
      [] mode = "half" -> [pxw |-> 1, pxh |-> 2, eff |-> <<1, 2>>]
      [] OTHER -> [pxw |-> 1, pxh |-> 1,
                   eff |-> IF char_aspect = NoneArg THEN <<1, 2>>
                           ELSE ValueOf(char_aspect)]

\* int((h / float(w)) * width_cells * eff), before the clamp
derive_height(w, h, width_cells, eff) == py_int(h * width_cells * eff[1], w * eff[2])

\* int((w / float(h)) * height_cells / eff), before the clamp
derive_width(w, h, height_cells, eff) == py_int(w * height_cells * eff[2], h * eff[1])

\* columns is the terminal width reported by shutil.get_terminal_size
scale_to_cells(img, mode, width_cells, height_cells, char_aspect, columns) ==
    LET w == img.size[1]
        h == img.size[2]
        fp == footprint(mode, char_aspect)
        wc0 == IF width_cells = NoneArg /\ height_cells = NoneArg
               THEN Given(Max(1, columns - 2)) ELSE width_cells
    IN  IF height_cells = NoneArg /\ w = 0 THEN Raise("ZeroDivisionError")
        ELSE IF height_cells # NoneArg /\ wc0 = NoneArg /\ (h = 0 \/ fp.eff[1] = 0)
             THEN Raise("ZeroDivisionError")
        ELSE LET hc == IF height_cells = NoneArg
                       THEN Max(1, derive_height(w, h, ValueOf(wc0), fp.eff))
                       ELSE ValueOf(height_cells)
                 wc == IF height_cells # NoneArg /\ wc0 = NoneArg
                       THEN Max(1, derive_width(w, h, hc, fp.eff))
                       ELSE ValueOf(wc0)
                 tw == Max(1, wc * fp.pxw)
                 th == Max(1, hc * fp.pxh)
             IN  [kind |-> "scaled", img |-> resize_nn(img, tw, th),
                  width_cells |-> wc,
                  height_cells |-> hc]

---------------------------------------------------------------------------
(* Renderers *)

\* luma(r, g, b): int(0.299 r + 0.587 g + 0.114 b + 0.5), in thousandths.
\* The floating-point sum agrees with this wherever 299 r + 587 g + 114 b is
\* not 500 modulo 1000; the pixels of the model are chosen so.
luma(r, g, b) == (299 * r + 587 * g + 114 * b + 500) \div 1000

\* the blend of one channel toward white: int(ar*c + (1-ar)*255 + 0.5)
blend(c, a) ==
    IF a = 255 THEN c ELSE (2 * (a * c + (255 - a) * 255) + 255) \div 510

\* int((Y/255.0) ** gamma * 255 + 0.5) for gamma 1.0 (skipped) and 2.0
apply_gamma(Y, gamma) == IF gamma = 1 THEN Y ELSE (2 * Y * Y + 255) \div 510

\* the blended <<r, g, b>> of pixel (x, y)
blended(img, x, y) ==
    LET i == (y * img.size[1] + x) * 4
        a == At(img.buf, i + 3)
    IN  <<blend(At(img.buf, i), a), blend(At(img.buf, i + 1), a),
          blend(At(img.buf, i + 2), a)>>

pixel_luma(img, x, y, gamma) ==
    LET c == blended(img, x, y)
    IN  apply_gamma(luma(c[1], c[2], c[3]), gamma)

BRAILLE_BASE == 10240
\* the table with the dots numbered down column 0, then down column 1
BRAILLE_BITS_sequential ==
    <<<<0, 0, 1>>, <<0, 1, 2>>, <<0, 2, 3>>, <<0, 3, 4>>,
      <<1, 0, 5>>, <<1, 1, 6>>, <<1, 2, 7>>, <<1, 3, 8>>>>

\* (dx, dy, dot number)
BRAILLE_BITS ==
    <<<<0, 0, 1>>, <<0, 1, 2>>, <<0, 2, 3>>, <<0, 3, 7>>,
      <<1, 0, 4>>, <<1, 1, 5>>, <<1, 2, 6>>, <<1, 3, 8>>>>

\* the loop over BRAILLE_BITS for the cell whose window starts at (cx, cy)
RECURSIVE braille_bits(_, _, _, _, _, _)
braille_bits(img, cx, cy, gamma, k, bits) ==
    IF k > Len(BRAILLE_BITS) THEN bits
    ELSE LET sx == cx + BRAILLE_BITS[k][1]
             sy == cy + BRAILLE_BITS[k][2]
             bit == BRAILLE_BITS[k][3]
         IN  IF sx >= img.size[1] \/ sy >= img.size[2]
             THEN braille_bits(img, cx, cy, gamma, k + 1, bits)
             ELSE IF pixel_luma(img, sx, sy, gamma) < 128
                  THEN braille_bits(img, cx, cy, gamma, k + 1,
                           IF (bits \div Pow2(bit - 1)) % 2 = 1 THEN bits
                           ELSE bits + Pow2(bit - 1))
             ELSE braille_bits(img, cx, cy, gamma, k + 1, bits)

Text(rows) == [kind |-> "text", rows |-> rows]

\* rows of glyph codepoints (colour escapes, which wrap the glyph, are left out)
render_braille(img0, width, height, gamma, columns) ==
    LET sc == scale_to_cells(img0, "braille", width, height, NoneArg, columns)
    IN  IF IsRaise(sc) THEN sc
        ELSE LET img == sc.img
                 w == img.size[1]
                 h == img.size[2]
             IN  Text([j \in 1..((h + 3) \div 4) |->
                         [i \in 1..((w + 1) \div 2) |->
                             BRAILLE_BASE
                             + braille_bits(img, 2 * (i - 1), 4 * (j - 1), gamma, 1, 0)]])

\* the index scaled by the ramp's length and wrapped into it
ramp_index_wrapped(Y, n) == ((2 * Y * n + 255) \div 510) % n

\* int((Y/255.0) * (n - 1) + 0.5) for a ramp of n glyphs
ramp_index(Y, n) == py_int(2 * Y * (n - 1) + 255, 510)

\* sum of channel c of the blended pixels of the region [x0, x1) x [y0, y1)
RECURSIVE region_sum(_, _, _, _, _, _, _)
region_sum(img, c, x0, x1, y0, y1, k) ==
    IF k >= (x1 - x0) * (y1 - y0) THEN 0
    ELSE blended(img, x0 + (k % (x1 - x0)), y0 + (k \div (x1 - x0)))[c]
         + region_sum(img, c, x0, x1, y0, y1, k + 1)

\* the glyph of cell (cx, cy) of render_blocks
blocks_cell(img, cells_w, cells_h, cx, cy, ramp_str, gamma) ==
    LET w == img.size[1]
        h == img.size[2]
        y0 == (cy * h) \div cells_h
        y1 == Max(y0 + 1, ((cy + 1) * h) \div cells_h)
        x0 == (cx * w) \div cells_w
        x1 == Max(x0 + 1, ((cx + 1) * w) \div cells_w)
        cnt == (x1 - x0) * (y1 - y0)
        r == region_sum(img, 1, x0, x1, y0, y1, 0) \div cnt
        g == region_sum(img, 2, x0, x1, y0, y1, 0) \div cnt
        b == region_sum(img, 3, x0, x1, y0, y1, 0) \div cnt
        Y == apply_gamma(luma(r, g, b), gamma)
    IN  At(ramp_str, ramp_index(Y, Len(ramp_str)))

\* rows of ramp glyphs (colour escapes left out); ramp_str is the ramp after
\* the lookup of a named preset
render_blocks(img0, width, height, ramp_str, gamma, char_aspect, columns) ==
    LET sc == scale_to_cells(img0, "blocks", width, height, char_aspect, columns)
    IN  IF IsRaise(sc) THEN sc
        ELSE IF sc.width_cells > 0 /\ sc.height_cells > 0 /\ ramp_str = <<>>
             THEN Raise("IndexError")
        ELSE Text([j \in 1..Max(0, sc.height_cells) |->
                     [i \in 1..Max(0, sc.width_cells) |->
                         blocks_cell(sc.img, sc.width_cells, sc.height_cells,
                                     i - 1, j - 1, ramp_str, gamma)]])

---------------------------------------------------------------------------
(* Files given to the decoders *)

PngFile(w, h, bit_depth, color_type, interlace, plte, trns, raw) ==
    [fmt |-> "png", has_ihdr |-> TRUE, w |-> w, h |-> h,
     bit_depth |-> bit_depth, color_type |-> color_type,
     comp |-> 0, flt |-> 0, interlace |-> interlace,
     plte |-> plte, trns |-> trns, raw |-> raw]

BmpFile(dib, w, h, bpp, comp, px) ==
    [fmt |-> "bmp", dib |-> dib, w |-> w, h |-> h, planes |-> 1,
     bpp |-> bpp, comp |-> comp, px |-> px]

PpmFile(magic, w, h, maxval, data) ==
    [fmt |-> "ppm", magic |-> magic, w |-> w, h |-> h, maxval |-> maxval,
     data |-> data]

\* n bytes, all different for n < 256 / 37
Pattern(seed, n) == [i \in 1..n |-> (seed + 37 * (i - 1)) % 256]

\* image widths of the PNG files
PngWidths == {1, 2}
\* palettes: none, two entries, and one whose last entry is cut short
PlteChoices == {<<>>, <<10, 20, 30, 40, 50, 60>>, <<10, 20, 30, 40>>}
\* transparency tables: none, and one longer than the two-entry palette
TrnsChoices == {<<>>, <<7, 8, 9, 0, 0, 0>>}

\* the bytes of one scanline of an indexed PNG of width w, before filtering:
\* 8-bit rows hold indices 0, 1 and 5; packed rows hold the samples 0, 1 and
\* the largest in the leading pixel
IndexedRows(w, bit_depth) ==
    IF bit_depth = 8
    THEN IF w = 1 THEN {<<0>>, <<1>>, <<5>>}
         ELSE {<<0, 0>>, <<1, 1>>, <<5, 5>>, <<0, 1>>, <<1, 5>>}
    ELSE LET one == Pow2(8 - bit_depth)
             two == IF bit_depth = 4 THEN 1 ELSE Pow2(8 - 2 * bit_depth)
         IN  IF w = 1 THEN {<<0>>, <<one>>, <<256 - one>>}
             ELSE {<<0>>, <<one + two>>, <<256 - one>>, <<two>>, <<one>>}

\* decompressed IDAT streams of h scanlines, filter type None or Up
RECURSIVE IndexedStreams(_, _, _)
IndexedStreams(w, bit_depth, h) ==
    IF h = 0 THEN {<<>>}
    ELSE {<<ft>> \o row \o rest : ft \in {0, 2}, row \in IndexedRows(w, bit_depth),
                                  rest \in IndexedStreams(w, bit_depth, h - 1)}

IndexedPngFiles ==
    UNION {{PngFile(sh[1], sh[2], sh[3], 3, 0, plte, trns, raw) :
                plte \in PlteChoices, trns \in TrnsChoices,
                raw \in IndexedStreams(sh[1], sh[3], sh[2])} :
           sh \in PngWidths \X (1..MaxH) \X {1, 2, 4, 8}}

\* (colour type, bit depth) of the greyscale and truecolour files
DirectShapes ==
    {<<0, 1>>, <<0, 2>>, <<0, 4>>, <<0, 8>>, <<0, 16>>, <<2, 8>>, <<2, 16>>,
     <<4, 8>>, <<4, 16>>, <<6, 8>>, <<6, 16>>}

\* h scanlines of row_len patterned bytes, each tagged filter type None
DirectStream(seed, row_len, h) ==
    [i \in 1..(h * (1 + row_len)) |->
        IF (i - 1) % (1 + row_len) = 0 THEN 0 ELSE Pattern(seed, i)[i]]

DirectPngFiles ==
    {PngFile(w, h, sh[2], sh[1], 0, <<>>, <<>>,
             DirectStream(seed, (w * png_spp(sh[1]) * sh[2] + 7) \div 8, h)) :
        w \in PngWidths, h \in 1..MaxH, sh \in DirectShapes, seed \in {3, 200}}

\* files the header checks reject, and files of zero width or height
OddPngFiles ==
    {PngFile(1, 1, 8, 2, 1, <<>>, <<>>, <<0, 1, 2, 3>>),
     PngFile(1, 1, 8, 1, 0, <<>>, <<>>, <<0, 1>>),
     [PngFile(1, 1, 8, 2, 0, <<>>, <<>>, <<0, 1, 2, 3>>) EXCEPT !.has_ihdr = FALSE],
     PngFile(1, 1, 8, 2, 0, <<>>, <<>>, <<5, 1, 2, 3>>),
     PngFile(0, 1, 8, 2, 0, <<>>, <<>>, <<0>>),
     PngFile(1, 0, 8, 2, 0, <<>>, <<>>, <<>>)}

\* pixel data of a BMP: complete, or one byte short
BmpData(seed, n) ==
    {Pattern(seed, n)} \cup (IF n > 0 THEN {Pattern(seed, n - 1)} ELSE {})

BmpFiles ==
    UNION {{BmpFile(40, w, h, bpp, 0, px) :
                px \in BmpData(0, Abs(h) * bmp_row(bpp, w)) \cup
                       BmpData(100, Abs(h) * bmp_row(bpp, w))} :
           w \in -1..2, h \in -MaxH..MaxH, bpp \in {24, 32}}
    \cup {BmpFile(12, 1, 1, 24, 0, Pattern(0, 4)),
          BmpFile(40, 1, 1, 24, 1, Pattern(0, 4)),
          BmpFile(40, 1, 1, 8, 0, Pattern(0, 4))}

PpmFiles ==
    UNION {{PpmFile(magic, w, h, 255, data) :
                data \in BmpData(0, w * h * (IF magic = "P5" THEN 1 ELSE 3)) \cup
                         BmpData(100, w * h * (IF magic = "P5" THEN 1 ELSE 3))} :
           magic \in {"P5", "P6"}, w \in 0..2, h \in 0..MaxH}
    \cup {PpmFile("P6", 1, 1, 65535, Pattern(0, 6)),
          PpmFile("P5", 1, 1, 15, Pattern(0, 1))}

\* a file with none of the three signatures
OtherFiles == {[fmt |-> "other"]}

Files == IndexedPngFiles \cup DirectPngFiles \cup OddPngFiles \cup BmpFiles
         \cup PpmFiles \cup OtherFiles

---------------------------------------------------------------------------
(* The decoding specification: a file is given; each loader, or the        *)
(* dispatcher, is called on it; an image the dispatcher returned is then   *)
(* resized.                                                                *)

IsFile == op = "idle" /\ ret = Pending

call_load_png ==
    /\ IsFile
    /\ op' = "load_png"
    /\ ret' = load_png(args)
    /\ UNCHANGED args

call_load_bmp ==
    /\ IsFile
    /\ op' = "load_bmp"
    /\ ret' = load_bmp(args)
    /\ UNCHANGED args

call_load_ppm_pgm ==
    /\ IsFile
    /\ op' = "load_ppm_pgm"
    /\ ret' = load_ppm_pgm(args)
    /\ UNCHANGED args

call_load_image ==
    /\ IsFile
    /\ op' = "load_image"
    /\ ret' = load_image(args)
    /\ UNCHANGED args

\* pixel sizes a resize is asked for (scale_to_cells passes sizes >= 1)
call_resize_nn ==
    /\ op = "load_image"
    /\ ret.kind = "image"
    /\ \E tw \in 1..MaxCells, th \in 1..MaxCells :
          /\ op' = "resize_nn"
          /\ args' = [img |-> ret, tw |-> tw, th |-> th]
          /\ ret' = resize_nn(ret, tw, th)

InitDecode ==
    /\ op = "idle"
    /\ ret = Pending
    /\ args \in Files

NextDecode ==
    \/ call_load_png
    \/ call_load_bmp
    \/ call_load_ppm_pgm
    \/ call_load_image
    \/ call_resize_nn

SpecDecode == InitDecode /\ [][NextDecode]_vars

---------------------------------------------------------------------------
(* The defiltering specification *)

\* the call _unfilter(raw, w, h, bpp_bytes)
call_unfilter ==
    /\ op = "idle"
    /\ ret = Pending
    /\ op' = "unfilter"
    /\ ret' = unfilter(args.raw, args.w, args.h, args.bpp_bytes)
    /\ UNCHANGED args

\* sample byte values of filtered scanlines: small, large and wrapping sums
FilterBytes == {0, 1, 255}
\* (width, bytes per pixel): a left neighbour is absent, or present
UnfilterShapes == {<<1, 1>>, <<2, 1>>, <<1, 2>>}

\* one scanline: a filter-type tag 0..4 and stride filtered bytes
Scanlines(stride) ==
    {<<f>> \o s : f \in 0..4, s \in [1..stride -> FilterBytes]}

RECURSIVE RawStreams(_, _)
RawStreams(stride, h) ==
    IF h = 0 THEN {<<>>}
    ELSE {l \o rest : l \in Scanlines(stride), rest \in RawStreams(stride, h - 1)}

InitUnfilter ==
    /\ op = "idle"
    /\ ret = Pending
    /\ \E sh \in UnfilterShapes, h \in 1..MaxH :
         \E raw \in RawStreams(sh[1] * sh[2], h) :
            args = [raw |-> raw, w |-> sh[1], h |-> h, bpp_bytes |-> sh[2]]

NextUnfilter == call_unfilter

SpecUnfilter == InitUnfilter /\ [][NextUnfilter]_vars

---------------------------------------------------------------------------
(* C7 *)

\* the PNG filter (the encoder's direction), stated from the format's
\* definition over the reconstructed image: byte x of row r
Recon(data, stride, r, x) ==
    IF r < 0 \/ x < 0 THEN 0 ELSE data[r * stride + x + 1]

PaethPredictor(a, b, c) ==
    LET p == a + b - c
        best == Min(Abs(p - a), Min(Abs(p - b), Abs(p - c)))
    IN  IF Abs(p - a) = best THEN a ELSE IF Abs(p - b) = best THEN b ELSE c

FilterByte(f, data, stride, bpp, r, x) ==
    LET cur == Recon(data, stride, r, x)
        a == Recon(data, stride, r, x - bpp)
        b == Recon(data, stride, r - 1, x)
        c == IF x - bpp < 0 THEN 0 ELSE Recon(data, stride, r - 1, x - bpp)
        pred == CASE f = 0 -> 0
                  [] f = 1 -> a
                  [] f = 2 -> b
                  [] f = 3 -> (a + b) \div 2
                  [] OTHER -> PaethPredictor(a, b, c)
    IN  (cur - pred) % 256

\* the raw stream obtained by filtering data again, row r with type ftypes[r]
Refilter(raw, data, w, h, bpp) ==
    LET stride == w * bpp
    IN  [i \in 1..(h * (1 + stride)) |->
            LET r == (i - 1) \div (1 + stride)
                c == (i - 1) % (1 + stride)
                f == raw[r * (1 + stride) + 1]
            IN  IF c = 0 THEN f ELSE FilterByte(f, data, stride, bpp, r, c - 1)]

\* C7: for filter types 0..4, filtering the output of _unfilter again with
\* each scanline's own filter type gives back the filtered bytes that were
\* the input
C7_UnfilterInverse ==
    (op = "unfilter" /\ ret.kind = "bytes") =>
        Refilter(args.raw, ret.data, args.w, args.h, args.bpp_bytes) = args.raw

\* a Sub row whose sum wraps past 255, then a Paeth row predicting from the
\* byte above, were defiltered
C7_Witness ==
    /\ op = "unfilter" /\ ret.kind = "bytes"
    /\ args.h = 2 /\ args.w = 2
    /\ args.raw[1] = 1 /\ args.raw[4] = 4
    /\ ret.data[1] = 255 /\ ret.data[2] = 0
    /\ args.raw[5] = 1 /\ ret.data[3] = 0

---------------------------------------------------------------------------
(* Claims about the decoders, checked under SpecDecode *)

\* pixel (x, y) of an image, as <<r, g, b, a>>
Pixel(img, x, y) ==
    SubSeq(img.buf, (y * img.size[1] + x) * 4 + 1, (y * img.size[1] + x) * 4 + 4)

DecoderOutcomes(f) == <<load_png(f), load_bmp(f), load_ppm_pgm(f)>>

\* some decoder recognised the file and raised, and none returned an image
Malformed(f) ==
    /\ \E i \in 1..3 : IsRaise(DecoderOutcomes(f)[i])
    /\ \A i \in 1..3 : DecoderOutcomes(f)[i].kind # "image"

\* C1: when a decoder raised a format error and no decoder succeeded, the
\* outcome of load_image is that error, and differs from the outcome for a
\* file that every decoder reported as not its format
C1_MalformedDistinct ==
    (op = "load_image" /\ Malformed(args)) =>
        /\ \E i \in 1..3 : IsRaise(DecoderOutcomes(args)[i])
                           /\ ret = DecoderOutcomes(args)[i]
        /\ ret # load_image([fmt |-> "other"])

\* the scanline bytes of a PNG file as the format lays them out: rows of
\* ceil(w * bit_depth / 8) bytes, each after its filter-type tag (None or Up)
RefRowLen(f) == (f.w * f.bit_depth + 7) \div 8

RECURSIVE RefScanByte(_, _, _)
RefScanByte(f, y, i) ==
    LET base == y * (1 + RefRowLen(f))
        b == f.raw[base + 2 + i]
    IN  IF f.raw[base + 1] = 2 /\ y > 0
        THEN (b + RefScanByte(f, y - 1, i)) % 256
        ELSE b

\* the sample stored for pixel (x, y): bit_depth bits, most significant first
StoredSample(f, x, y) ==
    LET bit == x * f.bit_depth
        shift == 8 - f.bit_depth - (bit % 8)
    IN  (RefScanByte(f, y, bit \div 8) \div Pow2(shift)) % Pow2(f.bit_depth)

IndexedDecoded ==
    /\ op = "load_png"
    /\ args.fmt = "png"
    /\ args.color_type = 3
    /\ ret.kind = "image"

\* C2: in an indexed PNG of bit depth 1, 2, 4 or 8, a pixel whose stored
\* sample v is below the number of palette entries decodes to palette entry v,
\* with alpha from transparency entry v if there is one, else 255
C2_SampleIsPaletteIndex ==
    IndexedDecoded =>
        \A x \in 0..(args.w - 1), y \in 0..(args.h - 1) :
            LET v == StoredSample(args, x, y)
            IN  v < Len(args.plte) \div 3 =>
                    Pixel(ret, x, y) =
                        <<args.plte[3 * v + 1], args.plte[3 * v + 2],
                          args.plte[3 * v + 3],
                          IF v < Len(args.trns) THEN args.trns[v + 1] ELSE 255>>

\* C3: in an indexed PNG, a pixel whose index is past the palette decodes to
\* opaque black (0, 0, 0, 255), whatever the lengths of the palette and of
\* the transparency table
C3_OutOfRangeOpaqueBlack ==
    IndexedDecoded =>
        \A x \in 0..(args.w - 1), y \in 0..(args.h - 1) :
            StoredSample(args, x, y) >= (Len(args.plte) + 2) \div 3 =>
                Pixel(ret, x, y) = <<0, 0, 0, 255>>

\* C6: every image a loader or resize_nn returns holds exactly
\* width * height * 4 bytes for its recorded size
C6_BufferLength ==
    (op \in {"load_png", "load_bmp", "load_ppm_pgm", "load_image", "resize_nn"}
        /\ ret.kind = "image") =>
        Len(ret.buf) = ret.size[1] * ret.size[2] * 4

\* filtered bytes of one scanline as the format packs them:
\* ceil(w * samples per pixel * bit depth / 8)
ScanlineBytes(f) == (f.w * png_spp(f.color_type) * f.bit_depth + 7) \div 8

\* a PNG file that load_png accepts, whose decompressed stream holds h
\* scanlines of a filter-type tag 0..4 and ScanlineBytes filtered bytes
PackedPng(f) ==
    /\ f.fmt = "png" /\ f.has_ihdr
    /\ f.comp = 0 /\ f.flt = 0 /\ f.interlace = 0
    /\ png_spp(f.color_type) # 0
    /\ f.bit_depth \in {1, 2, 4, 8, 16}
    /\ f.w >= 1 /\ f.h >= 1
    /\ Len(f.raw) = f.h * (1 + ScanlineBytes(f))
    /\ \A r \in 0..(f.h - 1) : f.raw[r * (1 + ScanlineBytes(f)) + 1] \in 0..4

\* C11: for every supported colour type, bit depth and width, the number of
\* bytes the expansion loop of load_png steps per row equals the stride
\* _unfilter used and the number of filtered bytes each scanline of the
\* stream holds, so _unfilter reconstructs every scanline and the bytes read
\* for output row r are the bytes reconstructed for scanline r
C11_RowStrideConsistent ==
    (op = "load_png" /\ PackedPng(args)) =>
        LET spp == png_spp(args.color_type)
            bpp == png_bpp(spp, args.bit_depth)
            step == png_row_len(args.color_type, args.w, args.bit_depth, spp)
            stride == unfilter_stride(args.w, bpp)
            scan == unfilter(args.raw, args.w, args.h, bpp)
        IN  /\ step = stride
            /\ stride = ScanlineBytes(args)
            /\ scan.kind = "bytes"
            /\ \A r \in 0..(args.h - 1) :
                   PySlice(scan.data, r * step, r * step + step) =
                   PySlice(scan.data, r * stride, r * stride + stride)

\* a BMP file with the height negated and the rows stored in reverse order
FlippedBmp(f) ==
    LET row == bmp_row(f.bpp, f.w)
        height == Abs(f.h)
    IN  [f EXCEPT !.h = -f.h,
                  !.px = [i \in 1..Len(f.px) |->
                             f.px[(height - 1 - ((i - 1) \div row)) * row
                                  + ((i - 1) % row) + 1]]]

BottomUpDecoded ==
    /\ op = "load_bmp"
    /\ args.fmt = "bmp"
    /\ args.h > 0
    /\ args.w > 0
    /\ Len(args.px) = args.h * bmp_row(args.bpp, args.w)
    /\ ret.kind = "image"

\* C8: a bottom-up BMP (positive height) and the top-down file of the same
\* content (negated height, rows reversed) decode to the same image, whose
\* pixels are R, G, B, A with A = 255 for 24-bit files
C8_BmpRowOrder ==
    (op = "load_bmp" /\ args.fmt = "bmp" /\ args.h > 0 /\ args.w > 0
        /\ Len(args.px) = args.h * bmp_row(args.bpp, args.w)
        /\ args.dib >= 40 /\ args.comp = 0 /\ args.bpp \in {24, 32}) =>
        /\ ret.kind = "image"
        /\ load_bmp(FlippedBmp(args)) = ret
        /\ ret.size = <<args.w, args.h>>
        /\ \A x \in 0..(args.w - 1), y \in 0..(args.h - 1) :
              LET n == args.bpp \div 8
                  o == (args.h - 1 - y) * bmp_row(args.bpp, args.w) + x * n
              IN  Pixel(ret, x, y) =
                      <<args.px[o + 3], args.px[o + 2], args.px[o + 1],
                        IF n = 3 THEN 255 ELSE args.px[o + 4]>>

\* a 24-bit bottom-up file of two rows of two pixels was decoded
C8_Witness ==
    /\ BottomUpDecoded
    /\ args.h = 2 /\ args.w = 2 /\ args.bpp = 24
    /\ Pixel(ret, 0, 0) # Pixel(ret, 0, 1)
    /\ load_bmp(FlippedBmp(args)).kind = "image"

---------------------------------------------------------------------------
(* The scaling specification *)

\* cell counts given on the command line: omitted, or -1..MaxCells
CellArgs == {NoneArg} \cup {Given(n) : n \in -1..MaxCells}

\* source images: patterned pixels, and an image of zero width
ScaleImages ==
    {RGBAImage(sz[1], sz[2], Pattern(11, sz[1] * sz[2] * 4)) :
        sz \in {<<1, 1>>, <<2, 2>>, <<3, 5>>, <<5, 3>>, <<0, 2>>}}

call_scale_to_cells ==
    /\ op = "idle"
    /\ ret = Pending
    /\ op' = "scale_to_cells"
    /\ ret' = scale_to_cells(args.img, args.mode, args.width_cells,
                             args.height_cells, args.char_aspect, args.columns)
    /\ UNCHANGED args

InitScale ==
    /\ op = "idle"
    /\ ret = Pending
    /\ \E img \in ScaleImages, mode \in {"braille", "half", "blocks"},
          wc \in CellArgs, hc \in CellArgs,
          ca \in {NoneArg, Given(<<1, 1>>)}, columns \in {1, 4} :
         args = [img |-> img, mode |-> mode, width_cells |-> wc,
                 height_cells |-> hc, char_aspect |-> ca, columns |-> columns]

NextScale == call_scale_to_cells

SpecScale == InitScale /\ [][NextScale]_vars

Scaled == op = "scale_to_cells" /\ ret.kind = "scaled"

\* C4: every dimension scale_to_cells returns is at least 1: the cell width,
\* the cell height, and the width and height of the resized image
C4_AllDimensionsClamped ==
    Scaled =>
        /\ ret.width_cells >= 1
        /\ ret.height_cells >= 1
        /\ ret.img.size[1] >= 1
        /\ ret.img.size[2] >= 1

\* the aspect factor in force for the call
EffOf(a) == footprint(a.mode, a.char_aspect).eff

OnlyWidthGiven == Scaled /\ args.width_cells # NoneArg /\ args.height_cells = NoneArg
OnlyHeightGiven == Scaled /\ args.width_cells = NoneArg /\ args.height_cells # NoneArg

\* c is max(1, r) for an integer r nearest to n / d
NearestClamped(c, n, d) ==
    \E r \in -64..64 : 2 * Abs(r * d - n) <= d /\ c = Max(1, r)

\* c is max(1, r) for r the quotient n / d with its fraction dropped
TruncatedClamped(c, n, d) ==
    \/ c = 1 /\ n < 2 * d
    \/ c >= 1 /\ c * d <= n /\ n < (c + 1) * d

\* C5 as stated: the derived cell count is the quotient rounded to the
\* nearest integer, then clamped to at least 1
C5_DerivedRounded ==
    /\ OnlyWidthGiven =>
          NearestClamped(ret.height_cells,
              args.img.size[2] * ValueOf(args.width_cells) * EffOf(args)[1],
              args.img.size[1] * EffOf(args)[2])
    /\ OnlyHeightGiven =>
          NearestClamped(ret.width_cells,
              args.img.size[1] * ValueOf(args.height_cells) * EffOf(args)[2],
              args.img.size[2] * EffOf(args)[1])

\* C5 amended: the derived cell count is the quotient truncated toward zero,
\* then clamped to at least 1
C5_DerivedTruncated ==
    /\ OnlyWidthGiven =>
          TruncatedClamped(ret.height_cells,
              args.img.size[2] * ValueOf(args.width_cells) * EffOf(args)[1],
              args.img.size[1] * EffOf(args)[2])
    /\ OnlyHeightGiven =>
          TruncatedClamped(ret.width_cells,
              args.img.size[1] * ValueOf(args.height_cells) * EffOf(args)[2],
              args.img.size[2] * EffOf(args)[1])

\* a height was derived from a quotient above 1 whose fraction is over a half
C5_Witness ==
    /\ OnlyWidthGiven
    /\ LET n == args.img.size[2] * ValueOf(args.width_cells) * EffOf(args)[1]
           d == args.img.size[1] * EffOf(args)[2]
       IN  n > d /\ 2 * (n % d) > d /\ ret.height_cells = n \div d

---------------------------------------------------------------------------
(* The Braille specification *)

Dark == <<0, 0, 0, 255>>
Light == <<255, 255, 255, 255>>

\* pixels on both sides of the threshold, translucent and coloured ones
BraillePixels ==
    {Dark, Light, <<127, 127, 127, 255>>, <<128, 128, 128, 255>>,
     <<0, 0, 0, 100>>, <<200, 30, 60, 255>>}

RECURSIVE Flatten(_)
Flatten(pixels) ==
    IF pixels = <<>> THEN <<>> ELSE Head(pixels) \o Flatten(Tail(pixels))

\* every 2x4 image of dark and light pixels, and every 1x1 image of BraillePixels
BrailleImages ==
    {RGBAImage(2, 4, Flatten(px)) : px \in [1..8 -> {Dark, Light}]}
    \cup {RGBAImage(1, 1, p) : p \in BraillePixels}

call_render_braille ==
    /\ op = "idle"
    /\ ret = Pending
    /\ op' = "render_braille"
    /\ ret' = render_braille(args.img, args.width, args.height, args.gamma,
                             args.columns)
    /\ UNCHANGED args

InitBraille ==
    /\ op = "idle"
    /\ ret = Pending
    /\ \E img \in BrailleImages,
          width \in {NoneArg} \cup {Given(n) : n \in 0..MaxCells},
          height \in {NoneArg} \cup {Given(n) : n \in 0..MaxCells},
          gamma \in {1, 2} :
         args = [img |-> img, width |-> width, height |-> height,
                 gamma |-> gamma, columns |-> 4]

NextBraille == call_render_braille

SpecBraille == InitBraille /\ [][NextBraille]_vars

\* the Unicode dot number of window offset (column, row)
DotNumber(col, row) ==
    IF col = 0 THEN <<1, 2, 3, 7>>[row + 1] ELSE <<4, 5, 6, 8>>[row + 1]

\* whether window offset (col, row) of the cell at column i, row j (from 0)
\* is a pixel of img with luma below 128
DotSet(img, i, j, col, row, gamma) ==
    /\ 2 * i + col < img.size[1]
    /\ 4 * j + row < img.size[2]
    /\ pixel_luma(img, 2 * i + col, 4 * j + row, gamma) < 128

DotMask(img, i, j, col, row, gamma) ==
    IF DotSet(img, i, j, col, row, gamma) THEN Pow2(DotNumber(col, row) - 1) ELSE 0

CellMask(img, i, j, gamma) ==
    DotMask(img, i, j, 0, 0, gamma) + DotMask(img, i, j, 0, 1, gamma)
    + DotMask(img, i, j, 0, 2, gamma) + DotMask(img, i, j, 0, 3, gamma)
    + DotMask(img, i, j, 1, 0, gamma) + DotMask(img, i, j, 1, 1, gamma)
    + DotMask(img, i, j, 1, 2, gamma) + DotMask(img, i, j, 1, 3, gamma)

\* the image render_braille draws from
BrailleScaled ==
    scale_to_cells(args.img, "braille", args.width, args.height, NoneArg,
                   args.columns).img

\* C9: each cell's codepoint is U+2800 plus the mask in which offset
\* (column, row) sets dot 1, 2, 3, 7 (column 0) or 4, 5, 6, 8 (column 1)
\* exactly when that pixel's luma is below 128; an all-dark window gives
\* U+28FF and an all-light window U+2800
C9_BrailleMask ==
    (op = "render_braille" /\ ret.kind = "text") =>
        LET img == BrailleScaled
        IN  \A j \in 1..Len(ret.rows) : \A i \in 1..Len(ret.rows[j]) :
                /\ ret.rows[j][i] = 10240 + CellMask(img, i - 1, j - 1, args.gamma)
                /\ (\A col \in 0..1, row \in 0..3 :
                        DotSet(img, i - 1, j - 1, col, row, args.gamma))
                   => ret.rows[j][i] = 10495
                /\ (\A col \in 0..1, row \in 0..3 :
                        ~DotSet(img, i - 1, j - 1, col, row, args.gamma))
                   => ret.rows[j][i] = 10240

\* a cell whose only dark pixel is at column 0, row 3 was rendered as dot 7
C9_Witness ==
    /\ op = "render_braille" /\ ret.kind = "text"
    /\ Len(ret.rows) = 1 /\ Len(ret.rows[1]) = 1
    /\ Pixel(BrailleScaled, 0, 3) = Dark
    /\ ret.rows[1][1] = 10240 + 64

---------------------------------------------------------------------------
(* The ramp specification *)

\* a ramp of n glyphs, each named by its place in the ramp
Ramp(n) == [i \in 1..n |-> i - 1]

\* 1x1 opaque grey images of every luma
GreyImages == {RGBAImage(1, 1, <<v, v, v, 255>>) : v \in 0..255}

call_render_blocks ==
    /\ op = "idle"
    /\ ret = Pending
    /\ op' = "render_blocks"
    /\ ret' = render_blocks(args.img, args.width, args.height, args.ramp,
                            args.gamma, args.char_aspect, args.columns)
    /\ UNCHANGED args

InitBlocks ==
    /\ op = "idle"
    /\ ret = Pending
    /\ \E img \in GreyImages, n \in 1..MaxRampLen, gamma \in {1, 2},
          width \in {NoneArg, Given(1)} :
         args = [img |-> img, width |-> width, height |-> Given(1),
                 ramp |-> Ramp(n), gamma |-> gamma, char_aspect |-> NoneArg,
                 columns |-> 4]

NextBlocks == call_render_blocks

SpecBlocks == InitBlocks /\ [][NextBlocks]_vars

\* the luma render_blocks computes for a cell of a one-pixel source image
SourceLuma == pixel_luma(args.img, 0, 0, args.gamma)

\* C10: the ramp index is monotonic in luma: no luma above the cell's maps
\* to a lower index, and no luma below it to a higher one
C10_RampMonotonic ==
    (op = "render_blocks" /\ ret.kind = "text") =>
        LET Y == SourceLuma
            n == Len(args.ramp)
        IN  \A j \in 1..Len(ret.rows) : \A i \in 1..Len(ret.rows[j]) :
                \A Y2 \in 0..255 :
                    /\ Y <= Y2 => ret.rows[j][i] <= ramp_index(Y2, n)
                    /\ Y2 <= Y => ramp_index(Y2, n) <= ret.rows[j][i]

\* a cell fell strictly inside a ramp of at least three glyphs
C10_Witness ==
    /\ op = "render_blocks" /\ ret.kind = "text"
    /\ Len(args.ramp) >= 3
    /\ Len(ret.rows) = 1 /\ Len(ret.rows[1]) >= 1
    /\ ret.rows[1][1] > 0 /\ ret.rows[1][1] < Len(args.ramp) - 1

=============================================================================
